---- MODULE Spec2Model ----
(***************************************************************************)
(* Model of github.com/nofeaturesonlybugs/routines: the Routines tree      *)
(* (routines.go) and the Service start/stop state machine (service.go).    *)
(*                                                                         *)
(* A goroutine launched by Go() is a task with a program counter; Wait()  *)
(* is a blocking two-step call; Service.Start/Stop are sequences of steps *)
(* taken while holding the service mutex.                                  *)
(***************************************************************************)
EXTENDS Naturals, Integers, FiniteSets, Sequences, TLC

\* ---- bounds of the model -------------------------------------------------
MaxNodes == 3
MaxTasks == 3
MaxWaiters == 1
MaxCallers == 2
MaxCalls == 3

Nil == 0
\* a Routines interface that holds nothing (Nil in a Routines argument is the nil
\* *routines)
NilInterface == 0 - 1
Nodes == 1..MaxNodes
Tasks == 1..MaxTasks
Waiters == 1..MaxWaiters
Callers == 1..MaxCallers

VARIABLES
    nNodes,       \* nodes 1..nNodes have been constructed (node 1 is the root)
    parent,       \* routines.parent (Nil for the root)
    doneCh,       \* routines.doneCh: TRUE once the channel is closed
    waitgroup,    \* routines.waitgroup: counter of the node's own goroutines
    children,     \* routines.children: counter of the children's goroutines
    stopped,      \* history: Stop() was called on the node by a caller other than a propagation goroutine
    owned,        \* the node was created by Service.Start or below such a node
    nTasks,       \* goroutines 1..nTasks have been launched by Go()
    taskNode,     \* the node whose Go() launched the goroutine
    taskKind,     \* "prop": the fn of Child(); "user": a caller's fn
    taskPc,       \* position of the goroutine
    wNode, wPc,   \* callers of Wait(): the node waited on and the position inside Wait()
    wSnap,        \* history: the number of goroutines launched when Wait() was called
    nilChild,     \* the program holds the Routines value Child() returned for a nil
                  \* receiver
    start,        \* service.start: the kind of start routine the service was built with
    routines,     \* service.routines (Nil when not started)
    mut,          \* service.mut: Nil or the caller holding it
    cPc,          \* position of a caller of Service.Start / Service.Stop
    cParent,      \* Start's argument `routines`
    cNode,        \* Start's local `child`
    log,          \* history: results of the Service calls, in the order they released the mutex
    routineCalls, \* history: number of invocations of service.start
    overlap,      \* history: a Start (a Stop) was called while another Start
                  \* (another Stop) was in progress
    fault         \* a panic escaped (was not recovered)

nodeVars == <<nNodes, parent, doneCh, waitgroup, children, stopped, owned>>
taskVars == <<nTasks, taskNode, taskKind, taskPc>>
waitVars == <<wNode, wPc, wSnap, nilChild>>
svcVars == <<start, routines, mut, cPc, cParent, cNode, log, routineCalls, overlap>>
vars == <<nodeVars, taskVars, waitVars, svcVars, fault>>

Exists(n) == n \in 1..nNodes
Launched(t) == t \in 1..nTasks

\* ---- the tree --------------------------------------------------------------
RECURSIVE IsAncestor(_, _)
\* a is a strict ancestor of n (follows routines.parent)
IsAncestor(a, n) ==
    IF n = Nil \/ parent[n] = Nil THEN FALSE
    ELSE parent[n] = a \/ IsAncestor(a, parent[n])

InSubtree(n, r) == n = r \/ IsAncestor(r, n)

\* fn has not returned yet
Executing(t) == Launched(t) /\ taskPc[t] \in {"select", "stop", "run"}
\* the goroutine has not finished its deferred calls yet
Live(t) == Launched(t) /\ taskPc[t] # "done"

\* ---- Init: NewRoutines() made the root, NewService(start) made the service --
\* "routine": NewService(start) with a start routine of the program;
\* "stub": NewService(nil), which installs the stub that returns an error
StartKinds == {"routine", "stub"}

Init ==
    /\ nNodes = 1
    /\ parent = [n \in Nodes |-> Nil]
    /\ doneCh = [n \in Nodes |-> FALSE]
    /\ waitgroup = [n \in Nodes |-> 0]
    /\ children = [n \in Nodes |-> 0]
    /\ stopped = [n \in Nodes |-> FALSE]
    /\ owned = [n \in Nodes |-> FALSE]
    /\ nTasks = 0
    /\ taskNode = [t \in Tasks |-> Nil]
    /\ taskKind = [t \in Tasks |-> "none"]
    /\ taskPc = [t \in Tasks |-> "none"]
    /\ wNode = [w \in Waiters |-> Nil]
    /\ wPc = [w \in Waiters |-> "idle"]
    /\ wSnap = [w \in Waiters |-> 0]
    /\ nilChild = FALSE
    /\ start \in StartKinds
    /\ routines = Nil
    /\ mut = Nil
    /\ cPc = [c \in Callers |-> "idle"]
    /\ cParent = [c \in Callers |-> Nil]
    /\ cNode = [c \in Callers |-> Nil]
    /\ log = <<>>
    /\ routineCalls = 0
    /\ overlap = FALSE
    /\ fault = FALSE

\* ---- routines.go: counters ------------------------------------------------
\* childrenUp: nil pointer safe increment of me.children
childrenUp(ch, me) == IF me # Nil THEN [ch EXCEPT ![me] = @ + 1] ELSE ch

\* childrenDown: nil pointer safe decrement of me.children
childrenDown(ch, me) == IF me # Nil THEN [ch EXCEPT ![me] = @ - 1] ELSE ch

\* The counters Go(fn) on node `me` (whose parent is `par`) increments before
\* the go statement: me.waitgroup and me.parent.children.

\* mutant of GoWaitgroup: Go() does not call me.waitgroup.Add(1)
GoWaitgroupNoAdd(wg, me) == wg

GoWaitgroup(wg, me) == [wg EXCEPT ![me] = @ + 1]

\* mutant of GoChildren: Go() does not call me.parent.childrenUp()
GoChildrenNoUp(ch, par) == ch

GoChildren(ch, par) == childrenUp(ch, par)

\* The go statement of Go(): goroutine nTasks+1 starts running fn.
Spawn(me, kind) ==
    /\ nTasks' = nTasks + 1
    /\ taskNode' = [taskNode EXCEPT ![nTasks + 1] = me]
    /\ taskKind' = [taskKind EXCEPT ![nTasks + 1] = kind]
    /\ taskPc' = [taskPc EXCEPT ![nTasks + 1] = IF kind = "prop" THEN "select" ELSE "run"]

\* Go(fn) on a non-nil node.
Go(me, kind) ==
    /\ waitgroup' = GoWaitgroup(waitgroup, me)
    /\ children' = GoChildren(children, parent[me])
    /\ Spawn(me, kind)

\* Child() on a non-nil node: NewRoutines(), parent = me, rv.Go(fn).
Child(me, isOwned) ==
    /\ nNodes' = nNodes + 1
    /\ parent' = [parent EXCEPT ![nNodes + 1] = me]
    /\ owned' = [owned EXCEPT ![nNodes + 1] = isOwned]
    /\ waitgroup' = GoWaitgroup(waitgroup, nNodes + 1)
    /\ children' = GoChildren(children, me)
    /\ Spawn(nNodes + 1, "prop")

\* mutant of Stop: no deferred recover(), the panic of a second close escapes
StopNoRecover(me) ==
    /\ doneCh' = [doneCh EXCEPT ![me] = TRUE]
    /\ fault' = (fault \/ doneCh[me])

\* Stop() on a non-nil node: close(me.doneCh) panics when the channel is already
\* closed, and the deferred recover() swallows the panic.
Stop(me) ==
    /\ doneCh' = [doneCh EXCEPT ![me] = TRUE]
    /\ fault' = fault

\* ---- who may call an operation on a node --------------------------------
\* Calls that start a Service and have not yet called it (they will need a node
\* and a goroutine for the child).
Reserved == Cardinality({c \in Callers : cPc[c] \in {"start_lock", "start_check"}})
FreeNode == nNodes + Reserved < MaxNodes
FreeTask == nTasks + Reserved < MaxTasks

\* A node made by Service.Start is handed only to the start routine (FnGo), which
\* hands it to the goroutines it launches; the other nodes are held by the program.
CanAct(n) ==
    /\ Exists(n)
    /\ \/ ~owned[n]
       \/ \E t \in Tasks : /\ Launched(t) /\ taskKind[t] = "user" /\ taskPc[t] = "run"
                           /\ owned[taskNode[t]] /\ InSubtree(n, taskNode[t])

\* ---- calls on the tree by the program and by running goroutines ----------
NodeChild(n) ==
    /\ CanAct(n) /\ FreeNode /\ FreeTask
    /\ Child(n, owned[n])
    /\ UNCHANGED <<doneCh, stopped, waitVars, svcVars, fault>>

NodeGo(n) ==
    /\ CanAct(n) /\ FreeTask
    /\ Go(n, "user")
    /\ UNCHANGED <<nNodes, parent, doneCh, stopped, owned, waitVars, svcVars, fault>>

NodeStop(n) ==
    /\ CanAct(n)
    /\ Stop(n)
    /\ stopped' = [stopped EXCEPT ![n] = TRUE]
    /\ UNCHANGED <<nNodes, parent, waitgroup, children, owned, taskVars, waitVars, svcVars>>

\* ---- goroutines ------------------------------------------------------------
\* mutant of FnReturn: the deferred childrenDown() is missing
FnReturnNoChildrenDown(t) ==
    /\ taskPc' = [taskPc EXCEPT ![t] = "deferred"]
    /\ children' = children

\* fn() of goroutine t returns and the first deferred call of Go() runs:
\* defer me.parent.childrenDown()
FnReturn(t) ==
    /\ taskPc' = [taskPc EXCEPT ![t] = "deferred"]
    /\ children' = childrenDown(children, parent[taskNode[t]])

\* mutant of PropSelectParent: the case <-parent.Done() does not call child.Stop()
PropSelectParentNoStop(t) ==
    /\ Launched(t) /\ taskKind[t] = "prop" /\ taskPc[t] = "select"
    /\ doneCh[parent[taskNode[t]]]
    /\ FnReturn(t)
    /\ UNCHANGED <<nNodes, parent, doneCh, waitgroup, stopped, owned,
                   nTasks, taskNode, taskKind, waitVars, svcVars, fault>>

\* fn of Child(): select takes the case <-parent.Done()
PropSelectParent(t) ==
    /\ Launched(t) /\ taskKind[t] = "prop" /\ taskPc[t] = "select"
    /\ doneCh[parent[taskNode[t]]]
    /\ taskPc' = [taskPc EXCEPT ![t] = "stop"]
    /\ UNCHANGED <<nodeVars, nTasks, taskNode, taskKind, waitVars, svcVars, fault>>

\* mutant of PropSelectChild: the case <-child.Done() calls parent.Stop()
PropSelectChildStopsParent(t) ==
    /\ Launched(t) /\ taskKind[t] = "prop" /\ taskPc[t] = "select"
    /\ doneCh[taskNode[t]]
    /\ doneCh' = [doneCh EXCEPT ![parent[taskNode[t]]] = TRUE]
    /\ FnReturn(t)
    /\ UNCHANGED <<nNodes, parent, waitgroup, stopped, owned,
                   nTasks, taskNode, taskKind, waitVars, svcVars, fault>>

\* mutant of PropSelectChild: the select has a default case and does not block
PropSelectChildNoBlock(t) ==
    /\ Launched(t) /\ taskKind[t] = "prop" /\ taskPc[t] = "select"
    /\ FnReturn(t)
    /\ UNCHANGED <<nNodes, parent, doneCh, waitgroup, stopped, owned,
                   nTasks, taskNode, taskKind, waitVars, svcVars, fault>>

\* fn of Child(): select takes the case <-child.Done(); goto done; fn returns
PropSelectChild(t) ==
    /\ Launched(t) /\ taskKind[t] = "prop" /\ taskPc[t] = "select"
    /\ doneCh[taskNode[t]]
    /\ FnReturn(t)
    /\ UNCHANGED <<nNodes, parent, doneCh, waitgroup, stopped, owned,
                   nTasks, taskNode, taskKind, waitVars, svcVars, fault>>

\* mutant of PropStop: the case <-parent.Done() calls parent.Stop()
PropStopParent(t) ==
    /\ Launched(t) /\ taskKind[t] = "prop" /\ taskPc[t] = "stop"
    /\ Stop(parent[taskNode[t]])
    /\ FnReturn(t)
    /\ UNCHANGED <<nNodes, parent, waitgroup, stopped, owned,
                   nTasks, taskNode, taskKind, waitVars, svcVars>>

\* fn of Child(): child.Stop(), then fn returns
PropStop(t) ==
    /\ Launched(t) /\ taskKind[t] = "prop" /\ taskPc[t] = "stop"
    /\ Stop(taskNode[t])
    /\ FnReturn(t)
    /\ UNCHANGED <<nNodes, parent, waitgroup, stopped, owned,
                   nTasks, taskNode, taskKind, waitVars, svcVars>>

\* a caller's fn sees its node's Done() closed and returns
FnObserveDone(t) ==
    /\ Launched(t) /\ taskKind[t] = "user" /\ taskPc[t] = "run"
    /\ doneCh[taskNode[t]]
    /\ FnReturn(t)
    /\ UNCHANGED <<nNodes, parent, doneCh, waitgroup, stopped, owned,
                   nTasks, taskNode, taskKind, waitVars, svcVars, fault>>

\* a caller's fn finishes its work and returns before its node is stopped
FnFinish(t) ==
    /\ Launched(t) /\ taskKind[t] = "user" /\ taskPc[t] = "run"
    /\ ~doneCh[taskNode[t]]
    /\ FnReturn(t)
    /\ UNCHANGED <<nNodes, parent, doneCh, waitgroup, stopped, owned,
                   nTasks, taskNode, taskKind, waitVars, svcVars, fault>>

\* Go(): defer me.waitgroup.Done(); the goroutine ends
GoDeferWaitgroupDone(t) ==
    /\ Launched(t) /\ taskPc[t] = "deferred"
    /\ waitgroup' = [waitgroup EXCEPT ![taskNode[t]] = @ - 1]
    /\ taskPc' = [taskPc EXCEPT ![t] = "done"]
    /\ UNCHANGED <<nNodes, parent, doneCh, children, stopped, owned,
                   nTasks, taskNode, taskKind, waitVars, svcVars, fault>>

\* ---- Wait() called by the program ------------------------------------------
\* mutant of WaitChildrenDone: me.children.Wait() is missing
WaitChildrenDoneNoWait(me) == TRUE

\* me.children.Wait() returns once the counter is zero
WaitChildrenDone(me) == children[me] = 0

\* mutant of WaitOwnDone: me.waitgroup.Wait() is missing
WaitOwnDoneNoWait(me) == TRUE

\* me.waitgroup.Wait() returns once the counter is zero
WaitOwnDone(me) == waitgroup[me] = 0

\* history kept with a call of Wait(): the goroutines launched so far
Snapshot(w) == wSnap' = [wSnap EXCEPT ![w] = nTasks]

WaitCall(w, n) ==
    /\ wPc[w] \in {"idle", "returned"}
    /\ Exists(n) /\ ~owned[n]
    /\ wNode' = [wNode EXCEPT ![w] = n]
    /\ wPc' = [wPc EXCEPT ![w] = "children"]
    /\ UNCHANGED <<nilChild, nodeVars, taskVars, svcVars, fault>>

WaitChildren(w) ==
    /\ wPc[w] = "children"
    /\ WaitChildrenDone(wNode[w])
    /\ wPc' = [wPc EXCEPT ![w] = "own"]
    /\ UNCHANGED <<wNode, wSnap, nilChild, nodeVars, taskVars, svcVars, fault>>

WaitOwn(w) ==
    /\ wPc[w] = "own"
    /\ WaitOwnDone(wNode[w])
    /\ wPc' = [wPc EXCEPT ![w] = "returned"]
    /\ UNCHANGED <<wNode, wSnap, nilChild, nodeVars, taskVars, svcVars, fault>>

\* ---- calls on a nil *routines and on a nil Routines interface ---------------
\* the methods of Routines
NodeOps == {"Done", "Child", "Go", "Stop", "Wait"}

\* A method called on a nil *routines: each method tests me against nil first.
\* Done() returns a nil channel, Child() returns nil, which is a nil Routines
\* interface; Go(), Stop() and Wait() do nothing.
NilCall(op) ==
    /\ op \in NodeOps
    /\ nilChild' = (nilChild \/ op = "Child")
    /\ UNCHANGED <<wNode, wPc, wSnap, nodeVars, taskVars, svcVars, fault>>

\* A method called on the value Child() returned for a nil receiver: the value
\* is a nil interface, the call panics with a nil pointer dereference.
NilResultCall(op) ==
    /\ op \in NodeOps
    /\ nilChild
    /\ fault' = TRUE
    /\ UNCHANGED <<nodeVars, taskVars, waitVars, svcVars>>

\* a receive from the channel Done() returned can succeed: never for the nil
\* channel of a nil receiver
DoneReady(me) == IF me = Nil THEN FALSE ELSE doneCh[me]

\* ---- service.go: Start -----------------------------------------------------
\* Service calls made so far: those that returned and those in progress
CallsMade == Len(log) + Cardinality({c \in Callers : cPc[c] # "idle"})

InStart(c) == cPc[c] \in {"start_lock", "start_check", "start_fn", "start_stop",
                          "start_wait_children", "start_wait_own"}

\* a caller calls Start(routines) with a node the program holds
StartCall(c, p) ==
    /\ cPc[c] = "idle" /\ CallsMade < MaxCalls
    /\ Exists(p) /\ ~owned[p]
    /\ FreeNode /\ FreeTask
    /\ cPc' = [cPc EXCEPT ![c] = "start_lock"]
    /\ cParent' = [cParent EXCEPT ![c] = p]
    /\ overlap' = (overlap \/ \E d \in Callers \ {c} : InStart(d))
    /\ UNCHANGED <<nodeVars, taskVars, waitVars, start, routines, mut, cNode, log,
                   routineCalls, fault>>

\* a caller calls Start(routines) with a nil *routines or with a nil interface
StartCallAbsent(c, p) ==
    /\ cPc[c] = "idle" /\ CallsMade < MaxCalls
    /\ p \in {Nil, NilInterface}
    /\ cPc' = [cPc EXCEPT ![c] = "start_lock"]
    /\ cParent' = [cParent EXCEPT ![c] = p]
    /\ overlap' = (overlap \/ \E d \in Callers \ {c} : InStart(d))
    /\ UNCHANGED <<nodeVars, taskVars, waitVars, start, routines, mut, cNode, log,
                   routineCalls, fault>>

\* mutant of StartLock: Start does not take the mutex
StartLockNoMutex(c) ==
    /\ cPc[c] = "start_lock"
    /\ mut' = c
    /\ cPc' = [cPc EXCEPT ![c] = "start_check"]
    /\ UNCHANGED <<nodeVars, taskVars, waitVars, start, routines, cParent, cNode,
                   log, routineCalls, overlap, fault>>

\* me.mut.Lock()
StartLock(c) ==
    /\ cPc[c] = "start_lock" /\ mut = Nil
    /\ mut' = c
    /\ cPc' = [cPc EXCEPT ![c] = "start_check"]
    /\ UNCHANGED <<nodeVars, taskVars, waitVars, start, routines, cParent, cNode,
                   log, routineCalls, overlap, fault>>

\* mutant of IsStarted: the test of me.routines is missing
IsStartedNever == FALSE

\* mutant of IsStarted: a node whose channel is closed counts as not started
IsStartedWhileOpen == routines # Nil /\ ~doneCh[routines]

\* the test of Start and of Stop: me.routines != nil
IsStarted == routines # Nil

\* if me.routines != nil { return errors.AlreadyStarted() } (and the deferred Unlock)
StartAlreadyStarted(c) ==
    /\ cPc[c] = "start_check" /\ IsStarted
    /\ log' = Append(log, "AlreadyStarted")
    /\ mut' = Nil
    /\ cPc' = [cPc EXCEPT ![c] = "idle"]
    /\ UNCHANGED <<nodeVars, taskVars, waitVars, start, routines, cParent, cNode,
                   routineCalls, overlap, fault>>

\* mutant of StartChild: the mutex is released before the start routine is called
StartChildUnlocks(c) ==
    /\ cPc[c] = "start_check" /\ ~IsStarted
    /\ cParent[c] \in Nodes
    /\ Child(cParent[c], TRUE)
    /\ cNode' = [cNode EXCEPT ![c] = nNodes + 1]
    /\ routineCalls' = routineCalls + 1
    /\ mut' = Nil
    /\ cPc' = [cPc EXCEPT ![c] = "start_fn"]
    /\ UNCHANGED <<doneCh, stopped, waitVars, start, routines, cParent, log,
                   overlap, fault>>

\* child := routines.Child(), then me.start(child) is entered
StartChild(c) ==
    /\ cPc[c] = "start_check" /\ ~IsStarted
    /\ cParent[c] \in Nodes
    /\ Child(cParent[c], TRUE)
    /\ cNode' = [cNode EXCEPT ![c] = nNodes + 1]
    /\ routineCalls' = routineCalls + 1
    /\ cPc' = [cPc EXCEPT ![c] = "start_fn"]
    /\ UNCHANGED <<doneCh, stopped, waitVars, start, routines, mut, cParent, log,
                   overlap, fault>>

\* child := routines.Child() on a nil *routines: child is the nil interface, no
\* node is made; then me.start(child) is entered
StartChildNil(c) ==
    /\ cPc[c] = "start_check" /\ ~IsStarted
    /\ cParent[c] = Nil
    /\ cNode' = [cNode EXCEPT ![c] = Nil]
    /\ routineCalls' = routineCalls + 1
    /\ cPc' = [cPc EXCEPT ![c] = "start_fn"]
    /\ UNCHANGED <<nodeVars, taskVars, waitVars, start, routines, mut, cParent, log,
                   overlap, fault>>

\* child := routines.Child() on a nil interface panics; err is nil, so the
\* deferred function does nothing, the deferred Unlock runs, the panic reaches
\* the caller
StartChildPanic(c) ==
    /\ cPc[c] = "start_check" /\ ~IsStarted
    /\ cParent[c] = NilInterface
    /\ fault' = TRUE
    /\ log' = Append(log, "panic")
    /\ mut' = Nil
    /\ cPc' = [cPc EXCEPT ![c] = "idle"]
    /\ UNCHANGED <<nodeVars, taskVars, waitVars, start, routines, cParent, cNode,
                   routineCalls, overlap>>

\* the start routine launches a goroutine on the node it was given
FnGo(c) ==
    /\ cPc[c] = "start_fn" /\ start # "stub"
    /\ cNode[c] # Nil
    /\ FreeTask
    /\ Go(cNode[c], "user")
    /\ UNCHANGED <<nNodes, parent, doneCh, stopped, owned, waitVars, svcVars, fault>>

\* mutant of FnResults: NewService keeps a nil start and no stub is installed
FnResultsNoStub == {"nil", "error"}

\* the errors the start routine of the service may return ("nil" is success);
\* the stub NewService installs for a nil start returns errors.NilArgument
FnResults == IF start = "routine" THEN {"nil", "error"} ELSE {"NilArgument"}

\* err = me.start(child) returned nil: me.routines = child; return nil (and Unlock)
StartCommit(c) ==
    /\ cPc[c] = "start_fn" /\ "nil" \in FnResults
    /\ routines' = cNode[c]
    /\ log' = Append(log, "ok")
    /\ mut' = Nil
    /\ cPc' = [cPc EXCEPT ![c] = "idle"]
    /\ UNCHANGED <<nodeVars, taskVars, waitVars, start, cParent, cNode,
                   routineCalls, overlap, fault>>

\* mutant of StartFail: me.routines = child is assigned before err is tested
StartFailKeepsChild(c) ==
    /\ cPc[c] = "start_fn" /\ FnResults # {"nil"}
    /\ routines' = cNode[c]
    /\ cPc' = [cPc EXCEPT ![c] = "start_stop"]
    /\ UNCHANGED <<nodeVars, taskVars, waitVars, start, mut, cParent, cNode,
                   log, routineCalls, overlap, fault>>

\* err = me.start(child) returned an error: the deferred function will run
StartFail(c) ==
    /\ cPc[c] = "start_fn" /\ FnResults # {"nil"}
    /\ cPc' = [cPc EXCEPT ![c] = "start_stop"]
    /\ UNCHANGED <<nodeVars, taskVars, waitVars, start, routines, mut, cParent, cNode,
                   log, routineCalls, overlap, fault>>

\* deferred: child.Stop()
StartCleanupStop(c) ==
    /\ cPc[c] = "start_stop" /\ cNode[c] # Nil
    /\ Stop(cNode[c])
    /\ stopped' = [stopped EXCEPT ![cNode[c]] = TRUE]
    /\ cPc' = [cPc EXCEPT ![c] = "start_wait_children"]
    /\ UNCHANGED <<nNodes, parent, waitgroup, children, owned, taskVars, waitVars,
                   start, routines, mut, cParent, cNode, log, routineCalls, overlap>>

\* deferred: child.Stop() on the nil interface panics; the deferred Unlock runs,
\* the panic reaches the caller
StartCleanupPanic(c) ==
    /\ cPc[c] = "start_stop" /\ cNode[c] = Nil
    /\ fault' = TRUE
    /\ log' = Append(log, "panic")
    /\ mut' = Nil
    /\ cPc' = [cPc EXCEPT ![c] = "idle"]
    /\ UNCHANGED <<nodeVars, taskVars, waitVars, start, routines, cParent, cNode,
                   routineCalls, overlap>>

\* deferred: child.Wait(), first me.children.Wait()
StartCleanupWaitChildren(c) ==
    /\ cPc[c] = "start_wait_children"
    /\ WaitChildrenDone(cNode[c])
    /\ cPc' = [cPc EXCEPT ![c] = "start_wait_own"]
    /\ UNCHANGED <<nodeVars, taskVars, waitVars, start, routines, mut, cParent, cNode,
                   log, routineCalls, overlap, fault>>

\* deferred: child.Wait(), then me.waitgroup.Wait(); return err (and Unlock)
StartCleanupWaitOwn(c) ==
    /\ cPc[c] = "start_wait_own"
    /\ WaitOwnDone(cNode[c])
    /\ log' = Append(log, "error")
    /\ mut' = Nil
    /\ cPc' = [cPc EXCEPT ![c] = "idle"]
    /\ UNCHANGED <<nodeVars, taskVars, waitVars, start, routines, cParent, cNode,
                   routineCalls, overlap, fault>>

\* ---- service.go: Stop ------------------------------------------------------
InStop(c) == cPc[c] \in {"stop_lock", "stop_check", "stop_wait_children",
                         "stop_wait_own"}

\* a caller calls Stop()
StopCall(c) ==
    /\ cPc[c] = "idle" /\ CallsMade < MaxCalls
    /\ cPc' = [cPc EXCEPT ![c] = "stop_lock"]
    /\ overlap' = (overlap \/ \E d \in Callers \ {c} : InStop(d))
    /\ UNCHANGED <<nodeVars, taskVars, waitVars, start, routines, mut, cParent, cNode,
                   log, routineCalls, fault>>

\* me.mut.Lock()
StopLock(c) ==
    /\ cPc[c] = "stop_lock" /\ mut = Nil
    /\ mut' = c
    /\ cPc' = [cPc EXCEPT ![c] = "stop_check"]
    /\ UNCHANGED <<nodeVars, taskVars, waitVars, start, routines, cParent, cNode,
                   log, routineCalls, overlap, fault>>

\* mutant of StopIdle: the test of me.routines is missing and me.routines.Stop()
\* is called on the nil interface
StopIdleNoNilTest(c) ==
    /\ cPc[c] = "stop_check" /\ ~IsStarted
    /\ fault' = TRUE
    /\ log' = Append(log, "noop")
    /\ mut' = Nil
    /\ cPc' = [cPc EXCEPT ![c] = "idle"]
    /\ UNCHANGED <<nodeVars, taskVars, waitVars, start, routines, cParent, cNode,
                   routineCalls, overlap>>

\* me.routines == nil: nothing to do (and Unlock)
StopIdle(c) ==
    /\ cPc[c] = "stop_check" /\ ~IsStarted
    /\ log' = Append(log, "noop")
    /\ mut' = Nil
    /\ cPc' = [cPc EXCEPT ![c] = "idle"]
    /\ UNCHANGED <<nodeVars, taskVars, waitVars, start, routines, cParent, cNode,
                   routineCalls, overlap, fault>>

\* me.routines.Stop()
StopStop(c) ==
    /\ cPc[c] = "stop_check" /\ IsStarted
    /\ Stop(routines)
    /\ stopped' = [stopped EXCEPT ![routines] = TRUE]
    /\ cPc' = [cPc EXCEPT ![c] = "stop_wait_children"]
    /\ UNCHANGED <<nNodes, parent, waitgroup, children, owned, taskVars, waitVars,
                   start, routines, mut, cParent, cNode, log, routineCalls, overlap>>

\* me.routines.Wait(), first me.children.Wait()
StopWaitChildren(c) ==
    /\ cPc[c] = "stop_wait_children"
    /\ WaitChildrenDone(routines)
    /\ cPc' = [cPc EXCEPT ![c] = "stop_wait_own"]
    /\ UNCHANGED <<nodeVars, taskVars, waitVars, start, routines, mut, cParent, cNode,
                   log, routineCalls, overlap, fault>>

\* mutant of StopWaitOwn: Stop does not wait for me.waitgroup
StopWaitOwnNoWait(c) ==
    /\ cPc[c] = "stop_wait_own"
    /\ routines' = Nil
    /\ log' = Append(log, "stopped")
    /\ mut' = Nil
    /\ cPc' = [cPc EXCEPT ![c] = "idle"]
    /\ UNCHANGED <<nodeVars, taskVars, waitVars, start, cParent, cNode,
                   routineCalls, overlap, fault>>

\* me.routines.Wait(), then me.waitgroup.Wait(); me.routines = nil (and Unlock)
StopWaitOwn(c) ==
    /\ cPc[c] = "stop_wait_own"
    /\ WaitOwnDone(routines)
    /\ routines' = Nil
    /\ log' = Append(log, "stopped")
    /\ mut' = Nil
    /\ cPc' = [cPc EXCEPT ![c] = "idle"]
    /\ UNCHANGED <<nodeVars, taskVars, waitVars, start, cParent, cNode,
                   routineCalls, overlap, fault>>

\* ---- the program -------------------------------------------------------------
\* The program holds the root, hands it to the Service, stops it and waits on it;
\* the start routine and its goroutines work on the nodes Start made.
Next ==
    \/ \E n \in Nodes : owned[n] /\ NodeChild(n)
    \/ \E n \in Nodes : owned[n] /\ NodeGo(n)
    \/ \E n \in Nodes : NodeStop(n)
    \/ \E t \in Tasks : PropSelectParent(t)
    \/ \E t \in Tasks : PropSelectChild(t)
    \/ \E t \in Tasks : PropStop(t)
    \/ \E t \in Tasks : FnObserveDone(t)
    \/ \E t \in Tasks : FnFinish(t)
    \/ \E t \in Tasks : GoDeferWaitgroupDone(t)
    \/ \E w \in Waiters, n \in Nodes : WaitCall(w, n) /\ UNCHANGED wSnap
    \/ \E w \in Waiters : WaitChildren(w)
    \/ \E w \in Waiters : WaitOwn(w)
    \/ \E c \in Callers, p \in Nodes : StartCall(c, p)
    \/ \E c \in Callers : StartLock(c)
    \/ \E c \in Callers : StartAlreadyStarted(c)
    \/ \E c \in Callers : StartChild(c)
    \/ \E c \in Callers : FnGo(c)
    \/ \E c \in Callers : StartCommit(c)
    \/ \E c \in Callers : StartFail(c)
    \/ \E c \in Callers : StartCleanupStop(c)
    \/ \E c \in Callers : StartCleanupWaitChildren(c)
    \/ \E c \in Callers : StartCleanupWaitOwn(c)
    \/ \E c \in Callers : StopCall(c)
    \/ \E c \in Callers : StopLock(c)
    \/ \E c \in Callers : StopIdle(c)
    \/ \E c \in Callers : StopStop(c)
    \/ \E c \in Callers : StopWaitChildren(c)
    \/ \E c \in Callers : StopWaitOwn(c)

Spec == Init /\ [][Next]_vars

\* ---- the Service, with callers that also pass an absent parent to Start -----
NilNext ==
    \/ Next
    \/ \E c \in Callers, p \in {Nil, NilInterface} : StartCallAbsent(c, p)
    \/ \E c \in Callers : StartChildNil(c)
    \/ \E c \in Callers : StartChildPanic(c)
    \/ \E c \in Callers : StartCleanupPanic(c)

NilSpec == Init /\ [][NilNext]_vars

\* ---- the tree alone: a program that uses Routines without a Service -------
TreeNext ==
    \/ \E n \in Nodes : NodeChild(n)
    \/ \E n \in Nodes : NodeGo(n)
    \/ \E n \in Nodes : NodeStop(n)
    \/ \E t \in Tasks : PropSelectParent(t)
    \/ \E t \in Tasks : PropSelectChild(t)
    \/ \E t \in Tasks : PropStop(t)
    \/ \E t \in Tasks : FnObserveDone(t)
    \/ \E t \in Tasks : FnFinish(t)
    \/ \E t \in Tasks : GoDeferWaitgroupDone(t)
    \/ \E w \in Waiters, n \in Nodes : WaitCall(w, n) /\ Snapshot(w)
    \/ \E w \in Waiters : WaitChildren(w)
    \/ \E w \in Waiters : WaitOwn(w)

TreeInit == Init /\ start = "routine"

TreeSpec == TreeInit /\ [][TreeNext]_vars

\* ---- fairness: the Go scheduler runs every runnable goroutine; a fn that
\* ---- watches Done() returns once it is closed (the contract of Go()) --------
TreeFairness ==
    /\ \A t \in Tasks : WF_vars(PropSelectParent(t) \/ PropSelectChild(t))
    /\ \A t \in Tasks : WF_vars(PropStop(t))
    /\ \A t \in Tasks : WF_vars(FnObserveDone(t))
    /\ \A t \in Tasks : WF_vars(GoDeferWaitgroupDone(t))
    /\ \A w \in Waiters : WF_vars(WaitChildren(w))
    /\ \A w \in Waiters : WF_vars(WaitOwn(w))

TreeFair == TreeSpec /\ TreeFairness

\* ---- the tree, with a program that also calls the methods on nil values ------
NilTreeNext ==
    \/ TreeNext
    \/ \E op \in NodeOps : NilCall(op)
    \/ \E op \in NodeOps : NilResultCall(op)

NilTreeSpec == TreeInit /\ [][NilTreeNext]_vars

\* ---- fairness of the Service: sync.Mutex hands the lock to every waiting
\* ---- caller in turn; the start routine returns; launched fns watch Done() -----
SvcFairness ==
    /\ \A t \in Tasks : WF_vars(PropSelectParent(t) \/ PropSelectChild(t))
    /\ \A t \in Tasks : WF_vars(PropStop(t))
    /\ \A t \in Tasks : WF_vars(FnObserveDone(t))
    /\ \A t \in Tasks : WF_vars(GoDeferWaitgroupDone(t))
    /\ \A c \in Callers : SF_vars(StartLock(c))
    /\ \A c \in Callers : SF_vars(StopLock(c))
    /\ \A c \in Callers : WF_vars(StartAlreadyStarted(c) \/ StartChild(c))
    /\ \A c \in Callers : WF_vars(StartCommit(c) \/ StartFail(c))
    /\ \A c \in Callers : WF_vars(StartCleanupStop(c))
    /\ \A c \in Callers : WF_vars(StartCleanupWaitChildren(c))
    /\ \A c \in Callers : WF_vars(StartCleanupWaitOwn(c))
    /\ \A c \in Callers : WF_vars(StopIdle(c) \/ StopStop(c))
    /\ \A c \in Callers : WF_vars(StopWaitChildren(c))
    /\ \A c \in Callers : WF_vars(StopWaitOwn(c))
    /\ \A w \in Waiters : WF_vars(WaitChildren(w))
    /\ \A w \in Waiters : WF_vars(WaitOwn(w))

SvcFair == Spec /\ SvcFairness

\* ======================= claims ==============================================

\* goroutines whose fn is still executing on a node of the subtree of r
ExecutingIn(r) == {t \in Tasks : Executing(t) /\ InSubtree(taskNode[t], r)}

\* C1: Wait() on a node R does not return while the fn of a goroutine launched by
\* Go() on R or on any node below R (child, grandchild, ...) is still executing.
C1_WaitCoversSubtree ==
    [][\A w \in Waiters :
          (wPc[w] = "own" /\ wPc'[w] = "returned") => ExecutingIn(wNode[w]) = {}]_vars

\* C2: in every state a node's children counter equals the number of goroutines
\* still running fn on all of its strict descendants (Go() would have to
\* increment the counter of every strict ancestor).
C2_CounterCountsAllDescendants ==
    \A n \in Nodes :
        Exists(n) =>
            children[n] = Cardinality({t \in Tasks : Executing(t) /\ IsAncestor(n, taskNode[t])})

\* C3: under fair scheduling, once Stop() was called on a node, the Done()
\* channel of every descendant at any depth is eventually closed, also of a
\* child made by Child() after the node's channel was closed.
C3_StopReachesDescendants ==
    \A n \in Nodes : \A d \in Nodes :
        (stopped[n] /\ Exists(d) /\ IsAncestor(n, d)) ~> doneCh[d]

\* C3 witness: a grandchild closed by propagation through two levels.
C3_Witness ==
    \E n \in Nodes : \E d \in Nodes :
        /\ Exists(d) /\ stopped[n] /\ IsAncestor(n, d) /\ parent[d] # n
        /\ doneCh[d] /\ ~stopped[d] /\ ~stopped[parent[d]]

\* C4: a node whose channel is closed either had Stop() called on it directly
\* or has a parent whose channel is closed; so Stop() on a child closes neither
\* the parent's channel, nor an ancestor's, nor a sibling's.
C4_ClosedOnlyDownward ==
    \A n \in Nodes :
        (Exists(n) /\ doneCh[n]) =>
            (stopped[n] \/ (parent[n] # Nil /\ doneCh[parent[n]]))

\* C4 witness: a child was stopped and its propagation goroutine has ended,
\* while its parent and a sibling are still open.
C4_Witness ==
    \E c \in Nodes : \E s \in Nodes :
        /\ Exists(c) /\ Exists(s) /\ c # s
        /\ parent[c] # Nil /\ parent[s] = parent[c]
        /\ stopped[c] /\ doneCh[c] /\ ~doneCh[parent[c]] /\ ~doneCh[s]
        /\ \E t \in Tasks : Launched(t) /\ taskNode[t] = c /\ taskPc[t] = "done"

\* C5: Stop() is idempotent: a closed channel stays closed, a Stop() on a node
\* whose channel is closed (a repeated call, or one racing with the
\* propagation goroutine) changes nothing of the tree, and no panic escapes.
C5_StopIdempotent ==
    /\ [](~fault)
    /\ [][/\ \A n \in Nodes : doneCh[n] => doneCh'[n]
          /\ \A n \in Nodes :
                (Exists(n) /\ doneCh[n] /\ NodeStop(n)) =>
                    UNCHANGED <<nNodes, parent, doneCh, waitgroup, children, owned, taskVars>>
          /\ \A t \in Tasks :
                (Launched(t) /\ doneCh[taskNode[t]] /\ PropStop(t)) =>
                    UNCHANGED <<nNodes, parent, doneCh, waitgroup, owned>>]_vars

\* C5 witness: Stop() was called on a node and closed its channel, and the
\* node's propagation goroutine is about to call Stop() on it again.
C5_Witness ==
    \E t \in Tasks :
        /\ Launched(t) /\ taskKind[t] = "prop" /\ taskPc[t] = "stop"
        /\ stopped[taskNode[t]] /\ doneCh[taskNode[t]] /\ ~fault

\* C6: under fair scheduling and with every fn returning once its node's Done()
\* is closed, a Wait() on a node at or below a node Stop() was called on
\* eventually returns.
C6_WaitReturnsAfterStop ==
    \A w \in Waiters :
        (/\ wPc[w] \in {"children", "own"}
         /\ \E r \in Nodes : stopped[r] /\ InSubtree(wNode[w], r))
        ~> (wPc[w] = "returned")

\* C6 witness: Wait() returned on a node below the stopped node, where a fn
\* of the program had been launched.
C6_Witness ==
    \E w \in Waiters : \E r \in Nodes :
        /\ wPc[w] = "returned" /\ stopped[r] /\ IsAncestor(r, wNode[w])
        /\ ~stopped[wNode[w]]
        /\ \E t \in Tasks : /\ Launched(t) /\ taskKind[t] = "user"
                            /\ taskNode[t] = wNode[w] /\ taskPc[t] = "done"

\* ---- the Service ------------------------------------------------------------
LogCount(x) == Cardinality({i \in 1..Len(log) : log[i] = x})
\* the nodes Start made with routines.Child()
Candidates == {n \in Nodes : Exists(n) /\ owned[n] /\ ~owned[parent[n]]}
AllIdle == \A c \in Callers : cPc[c] = "idle"

\* C7: two concurrent Start calls on a Service that is not started, with a start
\* routine that succeeds: one returns nil and the other AlreadyStarted, the
\* start routine ran once, and one child became me.routines.
C7_OneStartWins ==
    (/\ start = "routine" /\ overlap /\ AllIdle /\ Len(log) = 2
     /\ \A i \in 1..Len(log) : log[i] \in {"ok", "AlreadyStarted"})
    => (/\ LogCount("ok") = 1 /\ LogCount("AlreadyStarted") = 1
        /\ routineCalls = 1
        /\ Cardinality(Candidates) = 1
        /\ routines \in Candidates)

\* C7 witness: both calls overlapped and have returned.
C7_Witness ==
    /\ overlap /\ AllIdle /\ log = <<"ok", "AlreadyStarted">> /\ routines # Nil

\* C8: Start on a started Service returns AlreadyStarted and does nothing else:
\* no Child(), no call of the start routine, no counter changes, me.routines kept.
C8_AlreadyStartedDoesNothing ==
    [][\A c \in Callers :
          (cPc[c] = "start_check" /\ routines # Nil /\ cPc'[c] # "start_check")
          => (/\ cPc'[c] = "idle"
              /\ log' = Append(log, "AlreadyStarted")
              /\ UNCHANGED <<nodeVars, taskVars, routines, routineCalls>>)]_vars

\* C8 witness: a Start returned AlreadyStarted after the one start that ran.
C8_Witness ==
    /\ Len(log) > 0 /\ log[Len(log)] = "AlreadyStarted"
    /\ routines # Nil /\ routineCalls = 1

\* C9: when the start routine returned an error, at the step that returns the
\* error from Start the child's channel is closed and every goroutine launched
\* on the child (by the routine, and the propagation goroutine) has ended.
C9_FailedStartDrained ==
    [][\A c \in Callers :
          (cPc[c] = "start_wait_own" /\ cPc'[c] = "idle")
          => (/\ doneCh'[cNode[c]]
              /\ \A t \in Tasks :
                    (t <= nTasks' /\ taskNode'[t] = cNode[c]) => taskPc'[t] = "done")]_vars

\* C9 witness: the only Start failed after its routine had launched a goroutine.
C9_Witness ==
    /\ log = <<"error">> /\ AllIdle
    /\ \E t \in Tasks : /\ Launched(t) /\ taskKind[t] = "user"
                        /\ taskNode[t] \in Candidates /\ taskPc[t] = "done"

\* C10: a failed Start leaves me.routines nil, so the next Start is not refused:
\* the call after a failed Start never returns AlreadyStarted, and a Start whose
\* routine succeeds leaves the Service started.
C10_FailedStartLeavesIdle ==
    /\ \A i \in 1..Len(log) :
          (log[i] = "error" /\ i < Len(log)) => log[i + 1] # "AlreadyStarted"
    /\ \A c \in Callers :
          cPc[c] \in {"start_fn", "start_stop", "start_wait_children", "start_wait_own"}
          => routines = Nil
    /\ (Len(log) > 0 /\ log[Len(log)] = "error") => routines = Nil
    /\ (Len(log) > 0 /\ log[Len(log)] = "ok") => routines # Nil

\* C10 witness: a Start failed and the next Start succeeded.
C10_Witness ==
    /\ Len(log) >= 2 /\ log[1] = "error" /\ log[2] = "ok"

\* C12: Stop() on a started Service returns only after the channel of
\* me.routines is closed and every goroutine launched on that node has ended;
\* when it returns me.routines is nil, and the next Start is not refused.
C12_StopDrainsThenIdle ==
    /\ [](\A i \in 1..Len(log) :
            (log[i] = "stopped" /\ i < Len(log)) => log[i + 1] # "AlreadyStarted")
    /\ [][\A c \in Callers :
            (cPc[c] = "stop_wait_own" /\ cPc'[c] = "idle")
            => (/\ routines # Nil /\ doneCh'[routines]
                /\ \A t \in Tasks :
                      (t <= nTasks' /\ taskNode'[t] = routines) => taskPc'[t] = "done"
                /\ routines' = Nil)]_vars

\* C12 witness: started, stopped with a goroutine of the start routine drained,
\* and started again.
C12_Witness ==
    /\ log = <<"ok", "stopped", "ok">> /\ routines # Nil
    /\ \E t \in Tasks : /\ Launched(t) /\ taskKind[t] = "user"
                        /\ taskNode[t] \in Candidates /\ taskNode[t] # routines
                        /\ taskPc[t] = "done"

\* indexes of log before i at which the Service changed between idle and started
Changes(i) == {k \in 1..(i - 1) : log[k] \in {"ok", "stopped"}}

\* the Service was started when the call of log[i] held the mutex
StartedAt(i) ==
    /\ Changes(i) # {}
    /\ log[CHOOSE k \in Changes(i) : \A j \in Changes(i) : j <= k] = "ok"

\* C13: Stop() on an idle Service changes nothing and does not fault; of the
\* Stop() calls made on a started Service, concurrent ones included, exactly
\* one stops and drains me.routines and the others find the Service idle; every
\* Stop() call returns.
C13_StopRepeatable ==
    /\ [](\A i \in 1..Len(log) :
            /\ log[i] = "stopped" => StartedAt(i)
            /\ log[i] = "noop" => ~StartedAt(i))
    /\ [][\A c \in Callers :
            (cPc[c] = "stop_check" /\ cPc'[c] = "idle" /\ routines = Nil)
            => UNCHANGED <<nodeVars, taskVars, routines, fault>>]_vars
    /\ \A c \in Callers : InStop(c) ~> (cPc[c] = "idle")

\* C13 witness: two Stop() calls overlapped on a started Service and returned;
\* one drained the node, the other found the Service idle.
C13_Witness ==
    /\ overlap /\ AllIdle /\ log = <<"ok", "stopped", "noop">>
    /\ routines = Nil /\ ~fault

\* a node Start made that the Service has let go of: it is not me.routines and
\* no Start call is still working on it
Retired(n) ==
    /\ n \in Candidates /\ n # routines
    /\ \A c \in Callers :
          cPc[c] \in {"start_fn", "start_stop", "start_wait_children",
                      "start_wait_own"} => cNode[c] # n

\* C14: once Stop() has returned, or Start has returned an error, no goroutine
\* of the Service's node is counted any more: the node has no live goroutine,
\* the parent's counters are zero when nothing else runs, and a Wait() on the
\* parent returns although Stop() was never called on the parent.
C14_RetiredNodeCountsNothing ==
    /\ [](\A n \in Nodes : Retired(n) =>
             \A t \in Tasks : (Launched(t) /\ taskNode[t] = n) => taskPc[t] = "done")
    /\ []((AllIdle /\ routines = Nil) => (children[1] = 0 /\ waitgroup[1] = 0))
    /\ \A w \in Waiters :
          (AllIdle /\ routines = Nil /\ CallsMade = MaxCalls /\ wPc[w] = "children")
              ~> (wPc[w] = "returned")

\* C14 witness: a failed Start, a successful Start and a Stop have returned, and
\* Wait() on the parent, which was never stopped, has returned.
C14_Witness ==
    /\ AllIdle /\ log = <<"error", "ok", "stopped">> /\ routines = Nil
    /\ ~stopped[1] /\ ~doneCh[1]
    /\ \E w \in Waiters : wNode[w] = 1 /\ wPc[w] = "returned"

\* C16: a Service made by NewService(nil) is never started: every Start on it
\* returns the error of the stub, me.routines stays nil, and when Start returns
\* the child made for the call is closed and has no live goroutine.
C16_NilStartNeverRuns ==
    start = "stub" =>
        /\ routines = Nil
        /\ \A i \in 1..Len(log) : log[i] \in {"error", "noop"}
        /\ \A n \in Nodes : Retired(n) =>
              /\ doneCh[n]
              /\ \A t \in Tasks : (Launched(t) /\ taskNode[t] = n) => taskPc[t] = "done"

\* C16 witness: two Start calls on the stub Service have returned the error and
\* both children are closed and drained.
C16_Witness ==
    /\ start = "stub" /\ AllIdle /\ log = <<"error", "error">>
    /\ Cardinality(Candidates) = 2
    /\ \A n \in Candidates : doneCh[n] /\ waitgroup[n] = 0

\* C17: Wait() has two phases in a fixed order: it leaves me.children.Wait()
\* only on seeing the children counter at zero, and only then enters
\* me.waitgroup.Wait(), which it leaves only on seeing the waitgroup counter at
\* zero; it returns from no other place.
C17_WaitTwoPhases ==
    [][\A w \in Waiters :
          /\ (wPc[w] = "children" /\ wPc'[w] # "children")
             => (wPc'[w] = "own" /\ children[wNode[w]] = 0 /\ wNode'[w] = wNode[w])
          /\ (wPc'[w] = "own" /\ wPc[w] # "own") => wPc[w] = "children"
          /\ (wPc[w] = "own" /\ wPc'[w] # "own")
             => (wPc'[w] = "returned" /\ waitgroup[wNode[w]] = 0 /\ wNode'[w] = wNode[w])
          /\ (wPc'[w] = "returned" /\ wPc[w] # "returned") => wPc[w] = "own"]_vars

\* C17 witness: Wait() has returned on a node that had a goroutine of its own
\* and a child with its propagation goroutine.
C17_Witness ==
    \E w \in Waiters :
        /\ wPc[w] = "returned"
        /\ \E t \in Tasks : /\ Launched(t) /\ taskNode[t] = wNode[w]
                            /\ taskKind[t] = "user" /\ taskPc[t] = "done"
        /\ \E t \in Tasks : /\ Launched(t) /\ parent[taskNode[t]] = wNode[w]
                            /\ taskKind[t] = "prop" /\ taskPc[t] = "done"

\* the goroutines Child() launched for node n
PropTasks(n) == {t \in Tasks : Launched(t) /\ taskKind[t] = "prop" /\ taskNode[t] = n}

\* C18: every node made by Child() has exactly one propagation goroutine,
\* launched by Child() on the new node and counted in the new node's waitgroup.
\* It stays in its select while the channels of parent and child are both
\* open. Once one is closed it ends after at most one call, which is Stop() on
\* the child and closes no other channel; when only the child's channel is
\* closed it ends without calling Stop().
C18_OnePropagationTask ==
    /\ [](\A n \in Nodes : Exists(n) =>
             Cardinality(PropTasks(n)) = IF parent[n] = Nil THEN 0 ELSE 1)
    /\ [][/\ (nNodes' # nNodes) =>
                (/\ nNodes' = nNodes + 1 /\ nTasks' = nTasks + 1
                 /\ taskKind'[nTasks'] = "prop" /\ taskNode'[nTasks'] = nNodes'
                 /\ taskPc'[nTasks'] = "select" /\ waitgroup'[nNodes'] = 1)
          /\ \A t \in Tasks : (Launched(t) /\ taskKind[t] = "prop") =>
                (/\ (taskPc[t] = "select" /\ taskPc'[t] # "select") =>
                      (/\ doneCh[parent[taskNode[t]]] \/ doneCh[taskNode[t]]
                       /\ doneCh' = doneCh
                       /\ taskPc'[t] \in {"stop", "deferred"}
                       /\ (taskPc'[t] = "stop") => doneCh[parent[taskNode[t]]]
                       /\ (taskPc'[t] = "deferred") => doneCh[taskNode[t]])
                 /\ (taskPc[t] = "stop" /\ taskPc'[t] # "stop") =>
                      (/\ taskPc'[t] = "deferred"
                       /\ doneCh'[taskNode[t]]
                       /\ \A m \in Nodes \ {taskNode[t]} : doneCh'[m] = doneCh[m])
                 /\ (taskPc[t] = "deferred" /\ taskPc'[t] # "deferred") =>
                      (taskPc'[t] = "done" /\ doneCh' = doneCh)
                 /\ (taskPc[t] = "done") => (taskPc'[t] = "done"))]_vars

\* C18 witness: one propagation goroutine ended after Stop() on its child
\* because the parent was stopped, another ended without Stop() because its own
\* node was stopped while the parent's channel was open.
C18_Witness ==
    \E t, u \in Tasks :
        /\ Launched(t) /\ taskKind[t] = "prop" /\ taskPc[t] = "done"
        /\ stopped[parent[taskNode[t]]] /\ ~stopped[taskNode[t]] /\ doneCh[taskNode[t]]
        /\ Launched(u) /\ taskKind[u] = "prop" /\ taskPc[u] = "done"
        /\ stopped[taskNode[u]] /\ ~doneCh[parent[taskNode[u]]]

\* C19: Wait() on R does not return while a goroutine that was launched before
\* the call, on R or on a node whose parent is R, is still executing its fn.
C19_WaitCoversEarlierTasks ==
    [][\A w \in Waiters :
          (wPc[w] = "own" /\ wPc'[w] = "returned")
          => \A t \in 1..wSnap[w] :
                Executing(t) => (/\ taskNode[t] # wNode[w]
                                 /\ parent[taskNode[t]] # wNode[w])]_vars

\* C19 witness: Wait() has returned on a node on which, and on a child of which,
\* a fn had been launched before the call.
C19_Witness ==
    \E w \in Waiters :
        /\ wPc[w] = "returned"
        /\ \E t \in 1..wSnap[w] : taskKind[t] = "user" /\ taskNode[t] = wNode[w]
        /\ \E t \in 1..wSnap[w] : taskKind[t] = "user" /\ parent[taskNode[t]] = wNode[w]

\* goroutines launched on node n, and on the nodes whose parent is n
TasksOn(n) == {t \in Tasks : Launched(t) /\ taskNode[t] = n}
TasksBelow(n) == {t \in Tasks : Launched(t) /\ parent[taskNode[t]] = n}

C15_AbsentNodeSafe ==
    /\ [](~DoneReady(Nil))
    /\ [][\A op \in NodeOps :
            (NilCall(op) \/ NilResultCall(op))
            => (fault' = fault /\ UNCHANGED <<nodeVars, taskVars>>)]_vars

\* results a Start call can record in log
StartResults == {"ok", "AlreadyStarted", "error", "panic"}

\* C11: whatever parent Start was given, present or absent, once Start has
\* returned nil the Service is started with a node in me.routines, and the next
\* Start, with no Stop in between, returns AlreadyStarted.
C11_OkMeansStarted ==
    /\ (Len(log) > 0 /\ log[Len(log)] = "ok") => routines # Nil
    /\ \A i \in 1..Len(log) :
          (i < Len(log) /\ log[i] = "ok" /\ log[i + 1] \in StartResults)
          => log[i + 1] = "AlreadyStarted"

\* the propagation goroutines of the children R had when Wait() number w was
\* called on it
EarlierChildren(w) ==
    {t \in 1..wSnap[w] : taskKind[t] = "prop" /\ parent[taskNode[t]] = wNode[w]}

\* C21: while the channels of R and of a child C of R are both open, the
\* propagation goroutine of C sits in its select and is counted in the children
\* counter of R; so a Wait() on R that was called after Child() made C returns
\* only if the channel of R or of C has been closed, user goroutines or not.
C21_WaitHeldByOpenChild ==
    /\ [](\A t \in Tasks :
            (/\ Launched(t) /\ taskKind[t] = "prop"
             /\ ~doneCh[taskNode[t]] /\ ~doneCh[parent[taskNode[t]]])
            => (taskPc[t] = "select" /\ children[parent[taskNode[t]]] >= 1))
    /\ [][\A w \in Waiters :
            (wPc[w] # "returned" /\ wPc'[w] = "returned")
            => \A t \in EarlierChildren(w) :
                  doneCh[wNode[w]] \/ doneCh[taskNode[t]]]_vars

\* C21 witness: Wait() is held in its first phase on a node with a child made
\* before the call; no channel is closed and no user goroutine was launched.
C21_Witness ==
    \E w \in Waiters :
        /\ wPc[w] = "children" /\ EarlierChildren(w) # {}
        /\ \A n \in Nodes : ~doneCh[n]
        /\ \A t \in Tasks : Launched(t) => taskKind[t] = "prop"
        /\ children[wNode[w]] >= 1 /\ nNodes = MaxNodes

\* C22: Stop() on the parent given to Start closes the channel of me.routines
\* (by propagation) but leaves the Service as it is: me.routines changes only
\* when Stop() of the Service returns, and until then every Start that returns
\* gives AlreadyStarted, whether the channel of me.routines is closed or not.
C22_ParentStopKeepsRunning ==
    /\ [][routines # Nil =>
            /\ \/ routines' = routines
               \/ /\ routines' = Nil
                  /\ \E c \in Callers : cPc[c] = "stop_wait_own" /\ cPc'[c] = "idle"
            /\ (Len(log') > Len(log) /\ log'[Len(log')] \in StartResults)
               => log'[Len(log')] = "AlreadyStarted"]_vars
    /\ (routines # Nil /\ doneCh[parent[routines]])
          ~> (routines = Nil \/ doneCh[routines])

\* C22 witness: the parent was stopped, the channel of me.routines was closed by
\* its propagation goroutine and not by a Stop() call, a second Start has
\* returned AlreadyStarted and a third is about to; the Service is still started.
C22_Witness ==
    /\ routines # Nil /\ stopped[1] /\ ~stopped[routines] /\ doneCh[routines]
    /\ log = <<"ok", "AlreadyStarted">>
    /\ \E c \in Callers : cPc[c] = "start_check"

\* positions of Start and of Stop between me.mut.Lock() and the deferred Unlock
StartLocked == {"start_check", "start_fn", "start_stop", "start_wait_children",
                "start_wait_own"}
StopLocked == {"stop_check", "stop_wait_children", "stop_wait_own"}

\* C23: one mutex covers the whole of Start, the start routine included, and
\* the whole of Stop: the caller between Lock and Unlock is the holder of the
\* mutex, a Stop() acts on me.routines only while no Start is between Lock and
\* Unlock, and whenever no call is in progress and the Service is not started
\* every goroutine launched on a node Start made has ended.
C23_OneGuardSerializes ==
    /\ [](\A c \in Callers : (cPc[c] \in StartLocked \cup StopLocked) <=> mut = c)
    /\ [][\A c \in Callers :
            (cPc[c] = "stop_check" /\ cPc'[c] # "stop_check")
            => \A d \in Callers : cPc[d] \notin StartLocked]_vars
    /\ []((AllIdle /\ routines = Nil) =>
            \A t \in Tasks :
               (Launched(t) /\ taskNode[t] \in Candidates) => taskPc[t] = "done")

\* C23 witness: a Stop() was called while a Start is inside the start routine,
\* which has launched a goroutine; the Stop() waits for the mutex.
C23_Witness ==
    \E a, b \in Callers :
        /\ cPc[a] = "start_fn" /\ mut = a /\ cPc[b] = "stop_lock"
        /\ Len(log) = 1
        /\ \E t \in Tasks : /\ Launched(t) /\ taskKind[t] = "user"
                            /\ taskNode[t] = cNode[a] /\ taskPc[t] = "run"

====
